---- MODULE Spec2Model ----
(***************************************************************************)
(* A model of DataErrorGenerator (src/corrupt_data.py): the station        *)
(* variant registry, the per-field mutators and introduce_errors; and of   *)
(* the repair loop clean_csv_with_phi3 (src/phi3_no_metadata.py).          *)
(*                                                                         *)
(* Values.  A cell of the table, or an argument of a mutator, is one of    *)
(*   NA              the missing marker (None / NaN, pd.isna is true)      *)
(*   [str |-> s]     a Python str, s the sequence of its characters        *)
(*   [int |-> n]     a Python int                                          *)
(*   [flt |-> t]     a Python float with one decimal, t its value in tenths*)
(*   [num |-> d]     a latitude or longitude, d in whole degrees           *)
(*   [ts |-> h, fmt |-> f]  the text strftime gives for the instant h      *)
(*                   (hours since an epoch) under the layout f             *)
(***************************************************************************)
EXTENDS Integers, Sequences, FiniteSets, TLC

VARIABLES
    error_prob,            \* self.error_prob, in percent
    max_empty_percentage,  \* self.max_empty_percentage, in percent
    station_variants,      \* self.station_variants: name -> VariantSet
    df,                    \* the caller's table: [index, rows]
    df_with_errors,        \* the copy introduce_errors works on and returns
    pc,                    \* position inside introduce_errors / the call made
    col,                   \* position of the injection loop in df.columns
    idx,                   \* position of the row loop in df_with_errors.index
    empty,                 \* empty_indices of the last column injected
    uses,                  \* log of the registry lookups made by the stages
    first,                 \* name -> the VariantSet its first resolve returned
    other,                 \* a second generator: its registry and its 'first'
    call,                  \* arguments of the last direct mutator call
    ret,                   \* what the last direct mutator call returned
    corrected_rows         \* the list clean_csv_with_phi3 builds

vars == <<error_prob, max_empty_percentage, station_variants, df,
          df_with_errors, pc, col, idx, empty, uses, first, other, call,
          ret, corrected_rows>>

-----------------------------------------------------------------------------
(* Values and pd.isna / pd.notna *)

NA == [na |-> TRUE]

Str(s) == [str |-> s]

IsStr(v) == DOMAIN v = {"str"}

\* the characters of a str; a value that is no str has none
Chars(v) == IF IsStr(v) THEN v.str ELSE <<>>

isna(v) == v = NA

notna(v) == v # NA

-----------------------------------------------------------------------------
(* Characters: str.upper, str.lower, str.isspace on single characters *)

LowerLetters == <<"a","b","c","d","e","f","g","h","i","j","k","l","m",
                  "n","o","p","q","r","s","t","u","v","w","x","y","z">>

UpperLetters == <<"A","B","C","D","E","F","G","H","I","J","K","L","M",
                  "N","O","P","Q","R","S","T","U","V","W","X","Y","Z">>

Digits == <<"0","1","2","3","4","5","6","7","8","9">>

Range(s) == {s[i] : i \in DOMAIN s}

IsLower(c) == c \in Range(LowerLetters)

IsUpper(c) == c \in Range(UpperLetters)

IsCased(c) == IsLower(c) \/ IsUpper(c)

IsDigit(c) == c \in Range(Digits)

IsSpace(c) == c = " "

Pos(c, s) == CHOOSE i \in DOMAIN s : s[i] = c

UpperChar(c) == IF IsLower(c) THEN UpperLetters[Pos(c, LowerLetters)] ELSE c

LowerChar(c) == IF IsUpper(c) THEN LowerLetters[Pos(c, UpperLetters)] ELSE c

DigitVal(c) == Pos(c, Digits) - 1

-----------------------------------------------------------------------------
(* The str methods _get_station_variants applies to a name *)

\* name.upper()
Upper(s) == [i \in DOMAIN s |-> UpperChar(s[i])]

\* name.lower()
Lower(s) == [i \in DOMAIN s |-> LowerChar(s[i])]

\* name.title(): a cased character is upper-cased when the character before
\* it is not cased, and lower-cased otherwise
Title(s) ==
    [i \in DOMAIN s |->
        IF ~IsCased(s[i]) THEN s[i]
        ELSE IF i = 1 \/ ~IsCased(s[i - 1]) THEN UpperChar(s[i])
        ELSE LowerChar(s[i])]

RECURSIVE ReplaceAmp(_)
\* name.replace('&', 'and')
ReplaceAmp(s) ==
    IF s = <<>> THEN <<>>
    ELSE (IF Head(s) = "&" THEN <<"a", "n", "d">> ELSE <<Head(s)>>)
         \o ReplaceAmp(Tail(s))

RECURSIVE DoubleSpace(_)
\* re.sub(r'\s+', '  ', name): every run of whitespace becomes two spaces
DoubleSpace(s) ==
    IF s = <<>> THEN <<>>
    ELSE IF IsSpace(Head(s))
         THEN IF Len(s) > 1 /\ IsSpace(s[2])
              THEN DoubleSpace(Tail(s))
              ELSE <<" ", " ">> \o DoubleSpace(Tail(s))
         ELSE <<Head(s)>> \o DoubleSpace(Tail(s))

\* the 'names' list of a new VariantSet
NameVariants(name) ==
    << name,
       Str(Title(name.str)),
       Str(Upper(name.str)),
       Str(ReplaceAmp(name.str)),
       Str(DoubleSpace(name.str)) >>

-----------------------------------------------------------------------------
(* str(), float() and int() on a station id *)

RECURSIVE IntStr(_)
\* str(n) of an int n >= 0
IntStr(n) ==
    IF n < 10 THEN <<Digits[n + 1]>>
    ELSE IntStr(n \div 10) \o <<Digits[(n % 10) + 1]>>

\* str(x) of a float x >= 0 with one decimal, given in tenths
FloatStr(t) == IntStr(t \div 10) \o <<".", Digits[(t % 10) + 1]>>

RECURSIVE DigitsVal(_)
DigitsVal(s) ==
    IF s = <<>> THEN 0
    ELSE 10 * DigitsVal(SubSeq(s, 1, Len(s) - 1)) + DigitVal(s[Len(s)])

AllDigits(s) == s # <<>> /\ \A i \in DOMAIN s : IsDigit(s[i])

\* str(station_id); the missing marker NaN prints as 'nan'
StrOf(v) ==
    IF isna(v) THEN Str(<<"n", "a", "n">>)
    ELSE IF DOMAIN v = {"int"} THEN Str(IntStr(v.int))
    ELSE IF DOMAIN v = {"flt"} THEN Str(FloatStr(v.flt))
    ELSE v

\* int(station_id): [ok, v]; ok = FALSE stands for ValueError.  A str must
\* be all digits; a float is truncated.
IntOf(v) ==
    IF DOMAIN v = {"int"} THEN [ok |-> TRUE, v |-> v.int]
    ELSE IF DOMAIN v = {"flt"} THEN [ok |-> TRUE, v |-> v.flt \div 10]
    ELSE IF IsStr(v) /\ AllDigits(v.str)
         THEN [ok |-> TRUE, v |-> DigitsVal(v.str)]
    ELSE [ok |-> FALSE, v |-> 0]

\* float(station_id) in tenths: [ok, nan, v]; ok = FALSE stands for
\* ValueError.  A str is digits with at most one decimal, or 'nan'.
FloatOf(v) ==
    IF DOMAIN v = {"int"} THEN [ok |-> TRUE, nan |-> FALSE, v |-> 10 * v.int]
    ELSE IF DOMAIN v = {"flt"} THEN [ok |-> TRUE, nan |-> FALSE, v |-> v.flt]
    ELSE IF ~IsStr(v) THEN [ok |-> FALSE, nan |-> FALSE, v |-> 0]
    ELSE LET s == v.str
             n == Len(s)
         IN  IF AllDigits(s)
             THEN [ok |-> TRUE, nan |-> FALSE, v |-> 10 * DigitsVal(s)]
             ELSE IF n >= 3 /\ s[n - 1] = "." /\ IsDigit(s[n])
                     /\ AllDigits(SubSeq(s, 1, n - 2))
             THEN [ok |-> TRUE, nan |-> FALSE,
                   v |-> 10 * DigitsVal(SubSeq(s, 1, n - 2)) + DigitVal(s[n])]
             ELSE IF Lower(s) = <<"n", "a", "n">>
             THEN [ok |-> TRUE, nan |-> TRUE, v |-> 0]
             ELSE [ok |-> FALSE, nan |-> FALSE, v |-> 0]

-----------------------------------------------------------------------------
(* The gates and the enumerated-variant mutators *)

\* _should_introduce_error() drawing with random.uniform(0, 1), whose upper
\* end is an outcome: at probability 1.0 a gate may stay shut
GatesClosedRange(prob) == IF prob <= 0 THEN {FALSE} ELSE BOOLEAN

\* the outcomes of _should_introduce_error(): random.random() lies in [0, 1)
Gates(prob) ==
    IF prob <= 0 THEN {FALSE} ELSE IF prob >= 100 THEN {TRUE} ELSE BOOLEAN

\* 'sub in s' on strs
Contains(s, sub) ==
    \E i \in 0..(Len(s) - Len(sub)) : SubSeq(s, i + 1, i + Len(sub)) = sub

\* ' '.join(value[i:i+3] for i in range(0, len(value), 3)): groups of three
RECURSIVE JoinTriples(_)
JoinTriples(s) ==
    IF Len(s) <= 3 THEN s
    ELSE SubSeq(s, 1, 3) \o <<" ">> \o JoinTriples(SubSeq(s, 4, Len(s)))

\* ' '.join(value[i:i+2] for i in range(0, len(value), 2))
RECURSIVE JoinPairs(_)
JoinPairs(s) ==
    IF Len(s) <= 2 THEN s
    ELSE SubSeq(s, 1, 2) \o <<" ">> \o JoinPairs(SubSeq(s, 3, Len(s)))

\* the random outcomes of one _modify_ride_id call on the str s: the two
\* gates and the positions whose random.random() < 0.3
RideIdDraws(s, gates) ==
    UNION {{[space_gate |-> a, case_gate |-> b, lowered |-> l] :
              l \in IF b THEN SUBSET (1..Len(IF a THEN JoinPairs(s) ELSE s))
                         ELSE {{}}} :
           <<a, b>> \in gates \X gates}

\* whether _modify_ride_id raises: len(value) of line 61, or the iteration
\* over value of line 65, is a TypeError on a number
RideIdRaises(value, draw) ==
    notna(value) /\ ~IsStr(value) /\ (draw.space_gate \/ draw.case_gate)

\* _modify_ride_id
ModifyRideId(value, draw) ==
    IF isna(value) \/ (~draw.space_gate /\ ~draw.case_gate) THEN value
    ELSE LET spaced == IF draw.space_gate THEN JoinPairs(value.str)
                       ELSE value.str
         IN  IF draw.case_gate
             THEN Str([i \in DOMAIN spaced |->
                         IF i \in draw.lowered THEN LowerChar(spaced[i])
                         ELSE spaced[i]])
             ELSE Str(spaced)

\* the 'errors' table of _modify_rideable_type, in dict order
RideableCorrect == << <<"c", "l", "a", "s", "s", "i", "c", "_", "b", "i", "k", "e">>,
                      <<"e", "l", "e", "c", "t", "r", "i", "c", "_", "b", "i", "k", "e">> >>

ClassicBikeVariants ==
    << Str(<<"c", "l", "a", "s", "s", "_", "b", "i", "k", "e">>),
       Str(<<"c", "l", "a", "s", "s", "i", "c", "_", "b", "i", "k">>),
       Str(<<"c", "l", "a", "s", "i", "c", "_", "b", "i", "k", "e">>),
       Str(<<"c", "l", "a", "s", "s", "i", "c", " ", "b", "i", "k", "e">>) >>

ElectricBikeVariants ==
    << Str(<<"e", "l", "e", "c", "t", "r", "c", "_", "b", "i", "k", "e">>),
       Str(<<"e", "l", "e", "c", "t", "r", "i", "c", " ", "b", "i", "k", "e">>),
       Str(<<"e", "c", "l", "e", "c", "t", "i", "c", "_", "b", "i", "k", "e">>),
       Str(<<"e", "l", "e", "k", "t", "r", "i", "c", "_", "b", "i", "k", "e">>) >>

RideableVariants == <<ClassicBikeVariants, ElectricBikeVariants>>

\* the first entry of an errors table among those that match, 0 when none
\* does
FirstMatch(matches) ==
    IF matches = {} THEN 0
    ELSE CHOOSE k \in matches : \A j \in matches : k <= j

\* the random outcomes of one enumerated-variant call: the gate and the
\* position random.choice picks in a list of four
VariantDraws(gates) == [gate : gates, choice : 1..4]

\* whether _modify_rideable_type raises: 'correct in value' of line 79 is a
\* TypeError on a number
RideableTypeRaises(value, draw) ==
    notna(value) /\ ~IsStr(value) /\ draw.gate

\* _modify_rideable_type with the return outside the 'if correct in value'
\* test: the first list of the table is used whatever the value is
ModifyRideableTypeUnmatched(value, draw) ==
    IF isna(value) \/ ~draw.gate THEN value
    ELSE RideableVariants[1][draw.choice]

\* _modify_rideable_type
ModifyRideableType(value, draw) ==
    IF isna(value) \/ ~draw.gate THEN value
    ELSE LET k == FirstMatch({j \in DOMAIN RideableCorrect :
                                Contains(value.str, RideableCorrect[j])})
         IN  IF k = 0 THEN value ELSE RideableVariants[k][draw.choice]

\* the 'errors' table of _modify_member_type, in dict order
MemberCorrect == << <<"m", "e", "m", "b", "e", "r">>, <<"c", "a", "s", "u", "a", "l">> >>

MemberVariants ==
    << Str(<<"M", "e", "m", "b", "e", "r">>),
       Str(<<"M", "E", "M", "B", "E", "R">>),
       Str(<<"m", "e", "m", "b", "r">>),
       Str(<<"M", "e", "m", "b", "e", "r", "s">>) >>

CasualVariants ==
    << Str(<<"C", "a", "s", "u", "a", "l">>),
       Str(<<"C", "A", "S", "U", "A", "L">>),
       Str(<<"c", "a", "u", "s", "u", "a", "l">>),
       Str(<<"C", "a", "s", "u", "a", "l", "s">>) >>

MemberTypeVariants == <<MemberVariants, CasualVariants>>

\* whether _modify_member_type raises: value.lower() of line 196 is an
\* AttributeError on a number
MemberTypeRaises(value, draw) ==
    notna(value) /\ ~IsStr(value) /\ draw.gate

\* _modify_member_type
ModifyMemberType(value, draw) ==
    IF isna(value) \/ ~draw.gate THEN value
    ELSE LET k == FirstMatch({j \in DOMAIN MemberCorrect :
                                Lower(MemberCorrect[j]) = Lower(value.str)})
         IN  IF k = 0 THEN value ELSE MemberTypeVariants[k][draw.choice]

-----------------------------------------------------------------------------
(* Timestamps: strptime / strftime, _format_datetime, _modify_datetime *)

\* the layouts: self.base_datetime_format ('%Y-%m-%d %H:%M:%S') and the four
\* of _format_datetime ('%Y/%m/%d %H:%M:%S', '%Y%m%d %H:%M:%S',
\* '%Y-%m-%d %H%M%S', '%Y-%m-%d-%H-%M-%S')
BaseFormat == "base"

Formats == <<"slashes", "no_date_separators", "no_time_separators",
             "all_hyphens">>

\* dt.strftime(layout)
Strftime(h, layout) == [ts |-> h, fmt |-> layout]

\* datetime.strptime(v, self.base_datetime_format): [ok, h]; ok = FALSE
\* stands for ValueError (a str in another layout, or no timestamp at all)
\* or TypeError (not a str).  No text of the four other layouts parses under
\* the base layout.
Strptime(v) ==
    IF DOMAIN v = {"ts", "fmt"} /\ v.fmt = BaseFormat
    THEN [ok |-> TRUE, h |-> v.ts]
    ELSE [ok |-> FALSE, h |-> 0]

\* a timestamp str in the base layout
IsCanonical(v) == Strptime(v).ok

\* a timestamp str that does not parse under the base layout
IsMalformed(v) == notna(v) /\ ~Strptime(v).ok

\* _format_datetime with an except branch that returns None
FormatDatetimeReturnsNone(dt_str, chosen_format) ==
    LET dt == Strptime(dt_str)
    IN  IF dt.ok THEN Strftime(dt.h, chosen_format) ELSE NA

\* _format_datetime, chosen_format the outcome of random.choice(formats)
FormatDatetime(dt_str, chosen_format) ==
    LET dt == Strptime(dt_str)
    IN  IF dt.ok THEN Strftime(dt.h, chosen_format) ELSE dt_str

MaxHours == 24

MaxDays == 7

MaxWeeks == 4

HoursPerDay == 24

DaysPerWeek == 7

\* the values of time_difference, in hours
TimeDifferences ==
    (1..MaxHours)
    \cup {HoursPerDay * d : d \in 1..MaxDays}
    \cup {HoursPerDay * DaysPerWeek * w : w \in 1..MaxWeeks}

\* the random outcomes of one _modify_datetime call: the two gates, the two
\* layouts chosen and the time difference
DatetimeDraws(gates, differences) ==
    [format_gate : gates, order_gate : gates,
     start_format : Range(Formats), end_format : Range(Formats),
     time_difference : differences]

\* _modify_datetime: the pair returned
ModifyDatetime(start_dt, end_dt, draw) ==
    IF isna(start_dt) \/ isna(end_dt) THEN <<start_dt, end_dt>>
    ELSE LET s == IF draw.format_gate
                  THEN FormatDatetime(start_dt, draw.start_format)
                  ELSE start_dt
             e == IF draw.format_gate
                  THEN FormatDatetime(end_dt, draw.end_format)
                  ELSE end_dt
             dt == Strptime(s)
         IN  IF draw.order_gate /\ dt.ok
             THEN <<s, Strftime(dt.h - draw.time_difference, BaseFormat)>>
             ELSE <<s, e>>

-----------------------------------------------------------------------------
(* _generate_invalid_datetime; instants in seconds since 2024-01-01 00:00:00 *)

SecondsPerMinute == 60

SecondsPerHour == 3600

SecondsPerDay == 86400

\* self.valid_start: datetime(2024, 1, 1, 0, 0, 0)
valid_start == 0

\* self.valid_end: datetime(2024, 2, 1, 23, 59, 59), 31 days of January on
valid_end == 31 * SecondsPerDay + 23 * SecondsPerHour + 59 * SecondsPerMinute + 59

\* the upper ends of random.randint(1, 365), (0, 23), (0, 59), (0, 59)
MaxDaysOff == 365

MaxHour == 23

MaxMinute == 59

MaxSecond == 59

\* the random outcomes of one call: the side and the ends and a middle value
\* of each randint
InvalidDatetimeDraws ==
    [before : BOOLEAN, days : {1, 2, MaxDaysOff}, hours : {0, 1, MaxHour},
     minutes : {0, MaxMinute}, seconds : {0, MaxSecond}]

\* the timedelta of a draw, with days counted from 0 when from_zero holds
InvalidDelta(draw, from_zero) ==
    (IF from_zero THEN draw.days - 1 ELSE draw.days) * SecondsPerDay
    + draw.hours * SecondsPerHour + draw.minutes * SecondsPerMinute
    + draw.seconds

\* _generate_invalid_datetime with days=random.randint(0, 365)
GenerateInvalidDatetimeFromZeroDays(draw) ==
    Strftime(IF draw.before THEN valid_start - InvalidDelta(draw, TRUE)
             ELSE valid_end + InvalidDelta(draw, TRUE), BaseFormat)

\* _generate_invalid_datetime
GenerateInvalidDatetime(draw) ==
    Strftime(IF draw.before THEN valid_start - InvalidDelta(draw, FALSE)
             ELSE valid_end + InvalidDelta(draw, FALSE), BaseFormat)

-----------------------------------------------------------------------------
(* The station variant registry: _get_station_variants *)

Num(d) == [num |-> d]

MinVariants == 3

MaxVariants == 4

\* random.uniform(-1, 1) on the whole-degree grid
JitterMax == 1

\* every (lat_variation, lng_variation) pair of the grid
JitterGrid == (-JitterMax..JitterMax) \X (-JitterMax..JitterMax)

\* the two opposite corners of the grid
JitterCorners == {<<-JitterMax, JitterMax>>, <<JitterMax, -JitterMax>>}

\* the random draws of one registration: num_variants and one jitter pair
\* per variant, the pairs taken from the set pairs
CoordDraws(pairs) ==
    UNION {{[n |-> n, jit |-> j] : j \in [1..n -> pairs]} :
           n \in MinVariants..MaxVariants}

\* the draws of a call that generates no point (num_variants is drawn and
\* unused)
NoDraw == [n |-> MinVariants, jit |-> [k \in 1..MinVariants |-> <<0, 0>>]]

\* lines 128-141: the 'ids' list of a new VariantSet
IdVariants(station_id) ==
    IF isna(station_id) THEN <<station_id>>
    ELSE LET f == FloatOf(station_id)
             i == IntOf(station_id)
         IN  IF f.ok /\ i.ok
             THEN << StrOf(station_id),
                     Str(FloatStr(f.v + 1)),
                     Str(IntStr(i.v + 1)) >>
             ELSE << StrOf(station_id) >>

\* the 'coordinates' list drawn with random.uniform(-2, 2)
CoordinateVariantsWideJitter(lat, lng, draw) ==
    IF notna(lat) /\ notna(lng)
    THEN [k \in 1..draw.n |->
             << Num(lat.num + 2 * draw.jit[k][1]),
                Num(lng.num + 2 * draw.jit[k][2]) >>]
    ELSE << <<lat, lng>> >>

\* lines 114-126: the 'coordinates' list of a new VariantSet
CoordinateVariants(lat, lng, draw) ==
    IF notna(lat) /\ notna(lng)
    THEN [k \in 1..draw.n |->
             << Num(lat.num + draw.jit[k][1]), Num(lng.num + draw.jit[k][2]) >>]
    ELSE << <<lat, lng>> >>

NewVariantSet(name, station_id, lat, lng, draw) ==
    [names |-> NameVariants(name),
     ids |-> IdVariants(station_id),
     coordinates |-> CoordinateVariants(lat, lng, draw)]

\* whether a call registers name, and whether it then draws jitter
Registers(sv, name) == notna(name) /\ name \notin DOMAIN sv

DrawsFor(sv, name, lat, lng, pairs) ==
    IF Registers(sv, name) /\ notna(lat) /\ notna(lng)
    THEN CoordDraws(pairs) ELSE {NoDraw}

\* _get_station_variants without the 'name not in self.station_variants'
\* test: every call builds the VariantSet anew
GetStationVariantsNoCache(sv, name, station_id, lat, lng, draw) ==
    IF isna(name)
    THEN [variants |-> [names |-> <<name>>, ids |-> <<station_id>>,
                        coordinates |-> << <<lat, lng>> >>],
          registry |-> sv]
    ELSE LET new == NewVariantSet(name, station_id, lat, lng, draw)
         IN  [variants |-> new,
              registry |-> [n \in DOMAIN sv \cup {name} |->
                               IF n = name THEN new ELSE sv[n]]]

\* _get_station_variants on the registry sv: the VariantSet returned and the
\* registry after the call
GetStationVariants(sv, name, station_id, lat, lng, draw) ==
    IF isna(name)
    THEN [variants |-> [names |-> <<name>>, ids |-> <<station_id>>,
                        coordinates |-> << <<lat, lng>> >>],
          registry |-> sv]
    ELSE IF name \notin DOMAIN sv
    THEN LET new == NewVariantSet(name, station_id, lat, lng, draw)
         IN  [variants |-> new, registry |-> (name :> new) @@ sv]
    ELSE [variants |-> sv[name], registry |-> sv]

EmptyRegistry == [n \in {} |-> NA]

\* station_variants = {} in the class body in place of line 11: one dict,
\* which every generator reads and writes
NewRegistryShared == [registry |-> EmptyRegistry, aliased |-> TRUE]

\* line 11, self.station_variants = {}: a dict of this generator alone
NewRegistry == [registry |-> EmptyRegistry, aliased |-> FALSE]

\* a generator that is constructed and has made no lookup
NewGenerator ==
    [station_variants |-> NewRegistry.registry, first |-> EmptyRegistry]

\* the second generator during a step of the first: it keeps its registry,
\* which follows station_variants only if it is the same object
OtherUnchanged ==
    other' = IF NewRegistry.aliased
             THEN [other EXCEPT !.station_variants = station_variants']
             ELSE other

\* the first VariantSet returned for each name
FirstAfter(f, name, variants) ==
    IF isna(name) \/ name \in DOMAIN f THEN f ELSE (name :> variants) @@ f

-----------------------------------------------------------------------------
(* The entity and coordinate mutators *)

\* the random outcomes of one _modify_station_name call: the two gates and
\* the positions random.choice picks
StationDraws(gates) ==
    [name_gate : gates, id_gate : gates, name_choice : 1..5,
     id_choice : 1..3]

\* _modify_station_name on the registry sv: the pair returned, the registry
\* after the call, and the key looked up (NA when none is)
ModifyStationName(sv, name, station_id, draw) ==
    IF isna(name) \/ isna(station_id)
    THEN [name |-> name, station_id |-> station_id, registry |-> sv,
          key |-> NA, created |-> FALSE]
    ELSE LET r == GetStationVariants(sv, name, station_id, NA, NA, NoDraw)
             v == r.variants
             k == ((draw.id_choice - 1) % Len(v.ids)) + 1
         IN  [name |-> IF draw.name_gate THEN v.names[draw.name_choice]
                       ELSE name,
              station_id |-> IF draw.id_gate THEN v.ids[k]
                             ELSE StrOf(station_id),
              registry |-> r.registry,
              key |-> name,
              created |-> Registers(sv, name)]

\* the random outcomes of one _modify_coordinates call: the gate, the draws
\* of a registration and the position random.choice picks
CoordinateDraws(sv, station_name, lat, lng, gates, pairs) ==
    UNION {{[gate |-> g, draw |-> d, choice |-> c] :
              d \in IF g THEN DrawsFor(sv, station_name, lat, lng, pairs)
                         ELSE {NoDraw},
              c \in IF g THEN 1..MaxVariants ELSE {1}} :
           g \in gates}

\* _modify_coordinates on the registry sv: the pair returned, the registry
\* after the call, and the key looked up (NA when none is)
ModifyCoordinates(sv, lat, lng, station_name, station_id, draw) ==
    IF isna(station_name) \/ isna(lat) \/ isna(lng) \/ ~draw.gate
    THEN [lat |-> lat, lng |-> lng, registry |-> sv, key |-> NA,
          created |-> FALSE]
    ELSE LET r == GetStationVariants(sv, station_name, station_id, lat, lng,
                                     draw.draw)
             c == r.variants.coordinates
             k == ((draw.choice - 1) % Len(c)) + 1
         IN  [lat |-> c[k][1], lng |-> c[k][2], registry |-> r.registry,
              key |-> station_name, created |-> Registers(sv, station_name)]

-----------------------------------------------------------------------------
(* Direct calls of _get_station_variants on one generator *)

\* an empty table: pd.DataFrame with no rows
NoTable == [columns |-> <<>>, index |-> <<>>, rows |-> <<>>]

NoCall == [op |-> "none"]

\* the variables introduce_errors works on, at rest
PipelineIdle ==
    /\ error_prob = 0
    /\ max_empty_percentage = 0
    /\ df = NoTable
    /\ df_with_errors = NoTable
    /\ col = 0
    /\ idx = 0
    /\ empty = {}
    /\ uses = {}
    /\ other = NewGenerator
    /\ corrected_rows = <<>>

PipelineUnchanged ==
    /\ UNCHANGED <<error_prob, max_empty_percentage, df, df_with_errors, col,
                   idx, empty, uses, corrected_rows>>
    /\ OtherUnchanged

\* the arguments the calls are made with
ResolveNames == {NA, Str(<<"a", " ", "&">>), Str(<<"A", " ", "&">>)}

ResolveIds == {NA, Str(<<"7">>)}

ResolveCoords == {<<NA, NA>>, <<Num(10), Num(20)>>}

InitResolve ==
    /\ PipelineIdle
    /\ station_variants = EmptyRegistry
    /\ first = EmptyRegistry
    /\ pc = "resolve"
    /\ call = NoCall
    /\ ret = NA

\* one call self._get_station_variants(name, station_id, lat, lng), its
\* jitter drawn from pairs
GetStationVariantsCall(name, station_id, lat, lng, pairs) ==
    \E draw \in DrawsFor(station_variants, name, lat, lng, pairs) :
       LET r == GetStationVariants(station_variants, name, station_id,
                                   lat, lng, draw)
       IN  /\ station_variants' = r.registry
           /\ ret' = r.variants
           /\ first' = FirstAfter(first, name, r.variants)
           /\ call' = [op |-> "resolve", name |-> name,
                       station_id |-> station_id, lat |-> lat, lng |-> lng,
                       known |-> name \in DOMAIN station_variants]

Resolve(name, station_id, lat, lng) ==
    /\ pc = "resolve"
    /\ GetStationVariantsCall(name, station_id, lat, lng, JitterCorners)
    /\ UNCHANGED pc
    /\ PipelineUnchanged

NextResolve ==
    \E name \in ResolveNames, station_id \in ResolveIds,
       c \in ResolveCoords :
        Resolve(name, station_id, c[1], c[2])

SpecResolve == InitResolve /\ [][NextResolve]_vars

-----------------------------------------------------------------------------
(* One call of _get_station_variants on a fresh generator, over every kind  *)
(* of argument                                                              *)

FreshNames == {NA, Str(<<"a", " ", "&">>)}

FreshIds ==
    {NA, [int |-> 7], [flt |-> 75], Str(<<"7">>), Str(<<"7", ".", "0">>),
     Str(<<"7", ".", "5">>), Str(<<"T", "7">>), Str(<<"n", "a", "n">>)}

FreshLats == {NA, Num(10)}

FreshLngs == {NA, Num(20)}

InitFresh ==
    /\ PipelineIdle
    /\ station_variants = EmptyRegistry
    /\ first = EmptyRegistry
    /\ pc = "fresh"
    /\ ret = NA
    /\ \E name \in FreshNames, station_id \in FreshIds,
          lat \in FreshLats, lng \in FreshLngs :
          call = [op |-> "args", name |-> name, station_id |-> station_id,
                  lat |-> lat, lng |-> lng, known |-> FALSE]

ResolveFresh ==
    /\ pc = "fresh"
    /\ GetStationVariantsCall(call.name, call.station_id, call.lat, call.lng,
                              JitterGrid)
    /\ pc' = "returned"
    /\ PipelineUnchanged

NextFresh == ResolveFresh

SpecFresh == InitFresh /\ [][NextFresh]_vars

-----------------------------------------------------------------------------
(* One call of _modify_datetime over every kind of timestamp pair *)

\* a timestamp in the base layout, one in another layout, a str that is no
\* timestamp, and the missing marker
StartInputs ==
    {NA, Strftime(1000, BaseFormat), Strftime(1000, "slashes"),
     Str(<<"x">>)}

EndInputs ==
    {NA, Strftime(1001, BaseFormat), Strftime(1001, "all_hyphens"),
     Str(<<"x">>)}

InitDatetime ==
    /\ PipelineIdle
    /\ station_variants = EmptyRegistry
    /\ first = EmptyRegistry
    /\ pc = "datetime"
    /\ ret = NA
    /\ \E start_dt \in StartInputs, end_dt \in EndInputs :
          call = [op |-> "args", start_dt |-> start_dt, end_dt |-> end_dt]

ModifyDatetimeCall ==
    /\ pc = "datetime"
    /\ \E draw \in DatetimeDraws(BOOLEAN, TimeDifferences) :
          /\ ret' = ModifyDatetime(call.start_dt, call.end_dt, draw)
          /\ call' = [op |-> "modify_datetime", start_dt |-> call.start_dt,
                      end_dt |-> call.end_dt, draw |-> draw]
    /\ pc' = "returned"
    /\ UNCHANGED <<station_variants, first>>
    /\ PipelineUnchanged

NextDatetime == ModifyDatetimeCall

SpecDatetime == InitDatetime /\ [][NextDatetime]_vars

-----------------------------------------------------------------------------
(* One call of _modify_ride_id, _modify_rideable_type or                    *)
(* _modify_member_type over every kind of value                             *)

\* missing, odd and even lengths, the empty str, a str with a space
RideIdInputs ==
    {NA, Str(<<>>), Str(<<"A">>), Str(<<"A", "b", "1">>),
     Str(<<"A", "b", "C", "d">>), Str(<<"a", " ", "B">>)}

\* missing, each canonical term, a term inside a longer str, both terms, a
\* term in another case, a listed variant and an unrelated str
RideableTypeInputs ==
    {NA, Str(RideableCorrect[1]), Str(RideableCorrect[2]),
     Str(<<"a", "_">> \o RideableCorrect[1]),
     Str(RideableCorrect[2] \o <<" ">> \o RideableCorrect[1]),
     Str(Upper(RideableCorrect[1])), ClassicBikeVariants[1], Str(<<"x">>)}

\* missing, each canonical value, other casings, a listed misspelling, a
\* value with a trailing space and an unrelated str
MemberTypeInputs ==
    {NA, Str(MemberCorrect[1]), Str(MemberCorrect[2]), MemberVariants[1],
     CasualVariants[2], Str(<<"m", "E", "m", "b", "e", "r">>),
     MemberVariants[3], Str(MemberCorrect[1] \o <<" ">>), Str(<<"x">>)}

InitMutators ==
    /\ PipelineIdle
    /\ station_variants = EmptyRegistry
    /\ first = EmptyRegistry
    /\ ret = NA
    /\ \/ pc = "ride_id_call"
          /\ \E value \in RideIdInputs : call = [op |-> "args", value |-> value]
       \/ pc = "rideable_type_call"
          /\ \E value \in RideableTypeInputs :
                call = [op |-> "args", value |-> value]
       \/ pc = "member_type_call"
          /\ \E value \in MemberTypeInputs :
                call = [op |-> "args", value |-> value]

ModifyRideIdCall ==
    /\ pc = "ride_id_call"
    /\ \E draw \in RideIdDraws(Chars(call.value), BOOLEAN) :
          /\ ret' = ModifyRideId(call.value, draw)
          /\ call' = [op |-> "modify_ride_id", value |-> call.value,
                      draw |-> draw]
    /\ pc' = "returned"
    /\ UNCHANGED <<station_variants, first>>
    /\ PipelineUnchanged

ModifyRideableTypeCall ==
    /\ pc = "rideable_type_call"
    /\ \E draw \in VariantDraws(BOOLEAN) :
          /\ ret' = ModifyRideableType(call.value, draw)
          /\ call' = [op |-> "modify_rideable_type", value |-> call.value,
                      draw |-> draw]
    /\ pc' = "returned"
    /\ UNCHANGED <<station_variants, first>>
    /\ PipelineUnchanged

ModifyMemberTypeCall ==
    /\ pc = "member_type_call"
    /\ \E draw \in VariantDraws(BOOLEAN) :
          /\ ret' = ModifyMemberType(call.value, draw)
          /\ call' = [op |-> "modify_member_type", value |-> call.value,
                      draw |-> draw]
    /\ pc' = "returned"
    /\ UNCHANGED <<station_variants, first>>
    /\ PipelineUnchanged

NextMutators ==
    \/ ModifyRideIdCall
    \/ ModifyRideableTypeCall
    \/ ModifyMemberTypeCall

SpecMutators == InitMutators /\ [][NextMutators]_vars

-----------------------------------------------------------------------------
(* Tables: a pandas DataFrame with a unique index *)

Columns ==
    << "ride_id", "rideable_type", "started_at", "ended_at",
       "start_station_name", "start_station_id", "end_station_name",
       "end_station_id", "start_lat", "start_lng", "end_lat", "end_lng",
       "member_casual" >>

\* the columns the injector skips (line 204); 'id_columns' of line 216 are
\* the last two
SkippedColumns == {"ride_id", "start_station_id", "end_station_id"}

\* 'id_columns' with a name column listed in place of an id column
IdColumnsWithName == <<"start_station_name", "end_station_id">>

IdColumns == <<"start_station_id", "end_station_id">>

\* the position of a label in the index
PosOf(t, label) == CHOOSE p \in DOMAIN t.index : t.index[p] = label

\* t.at[label, column]
At(t, label, column) == t.rows[PosOf(t, label)][column]

\* t.at[label, column] = value with the column name misspelt: the table
\* gains a column
AtSetMisspelt(t, label, column, value) ==
    [columns |-> Append(t.columns, column \o "_"),
     index |-> t.index,
     rows |-> [p \in DOMAIN t.rows |->
                 ((column \o "_") :> IF p = PosOf(t, label) THEN value ELSE NA)
                 @@ t.rows[p]]]

\* t.at[label, column] = value: a column the table lacks is added, missing
\* in every other row
AtSet(t, label, column, value) ==
    IF column \in Range(t.columns)
    THEN [t EXCEPT !.rows[PosOf(t, label)][column] = value]
    ELSE [columns |-> Append(t.columns, column),
          index |-> t.index,
          rows |-> [p \in DOMAIN t.rows |->
                      (column :> IF p = PosOf(t, label) THEN value ELSE NA)
                      @@ t.rows[p]]]

\* df_with_errors = df in place of df.copy(): the table worked on is the
\* caller's
CopyByReference(t) == [table |-> t, aliased |-> TRUE]

\* df.copy(): the table worked on, which shares nothing with the caller's
Copy(t) == [table |-> t, aliased |-> FALSE]

\* t.loc[labels, column] = None: [ok, table]; ok = FALSE stands for the
\* KeyError of a label that is not in the index
LocSetNone(t, labels, column) ==
    IF labels \subseteq Range(t.index)
    THEN [ok |-> TRUE,
          table |-> [t EXCEPT !.rows =
                       [p \in DOMAIN t.rows |->
                          IF t.index[p] \in labels
                          THEN [t.rows[p] EXCEPT ![column] = NA]
                          ELSE t.rows[p]]]]
    ELSE [ok |-> FALSE, table |-> t]

\* t[column] = t[column].astype(str)
AsTypeStr(t, column) ==
    [t EXCEPT !.rows =
       [p \in DOMAIN t.rows |->
          [t.rows[p] EXCEPT ![column] = StrOf(t.rows[p][column])]]]

\* int(num_rows * self.max_empty_percentage), the fraction in percent
NumEmpty(num_rows, percentage) == (num_rows * percentage) \div 100

\* the outcomes of random.sample(range(num_rows), num_empty), as sets
Sample(num_rows, num_empty) ==
    {e \in SUBSET (0..(num_rows - 1)) : Cardinality(e) = num_empty}

-----------------------------------------------------------------------------
(* introduce_errors *)

MaxRows == 1

BlankRow == [c \in Range(Columns) |-> NA]

StationA == Str(<<"a">>)

\* the rows the input tables are made of: each has one group of fields
\* present
InputRows ==
    { BlankRow,
      [BlankRow EXCEPT !["ride_id"] = Str(<<"A", "b", "1">>)],
      [BlankRow EXCEPT !["rideable_type"] =
                          Str(<<"a", "_">> \o RideableCorrect[1])],
      [BlankRow EXCEPT !["started_at"] = Strftime(1000, BaseFormat),
                       !["ended_at"] = Str(<<"x">>)],
      [BlankRow EXCEPT !["started_at"] = Strftime(1000, BaseFormat),
                       !["ended_at"] = Strftime(1001, BaseFormat)],
      [BlankRow EXCEPT !["start_station_name"] = StationA,
                       !["start_station_id"] = Str(<<"T", "7">>),
                       !["start_lat"] = Num(10),
                       !["start_lng"] = Num(20),
                       !["end_station_name"] = StationA,
                       !["end_station_id"] = [int |-> 7]],
      [BlankRow EXCEPT !["member_casual"] =
                          Str(<<"M", "e", "m", "b", "e", "r">>)],
      [BlankRow EXCEPT !["member_casual"] =
                          Str(<<"c", "a", "s", "u", "a", "l">>)],
      [BlankRow EXCEPT !["ride_id"] = [int |-> 5],
                       !["rideable_type"] = [int |-> 1],
                       !["member_casual"] = [int |-> 2]] }

\* the row labels of a table of n rows: the RangeIndex pd.read_csv gives, or
\* the labels a longer table keeps once its first row is dropped
InputIndexes(n) == {[p \in 1..n |-> p - 1], [p \in 1..n |-> p]}

\* the tables, of at most MaxRows rows
InputTables ==
    UNION {{[columns |-> Columns, index |-> i, rows |-> r] :
              i \in InputIndexes(n), r \in [1..n -> InputRows]} :
           n \in 0..MaxRows}

\* the least and the greatest time difference, for the stage
StageTimeDifferences == {1, HoursPerDay * DaysPerWeek * MaxWeeks}

\* the jitter the stage draws
StageJitter == {<<JitterMax, -JitterMax>>}

ErrorProbabilities == {0, 65, 100}

MaxEmptyPercentages == {0, 3, 50, 100}

Init ==
    /\ error_prob \in ErrorProbabilities
    /\ max_empty_percentage \in MaxEmptyPercentages
    /\ station_variants = EmptyRegistry
    /\ first = EmptyRegistry
    /\ df \in InputTables
    /\ df_with_errors = Copy(df).table
    /\ pc = "inject"
    /\ col = 1
    /\ idx = 1
    /\ empty = {}
    /\ uses = {}
    /\ other = NewGenerator
    /\ call = NoCall
    /\ ret = NA
    /\ corrected_rows = <<>>

\* what a step of introduce_errors leaves alone: the configuration, the
\* second generator and the caller's table, which follows df_with_errors
\* only if it is the same object
ConfigUnchanged ==
    /\ UNCHANGED <<error_prob, max_empty_percentage, call, corrected_rows>>
    /\ OtherUnchanged
    /\ df' = IF Copy(df).aliased THEN df_with_errors' ELSE df

num_rows == Len(df.rows)

\* where the row loop goes after the injection and after a row
FirstStage == IF num_rows = 0 THEN "done" ELSE "ride_id"

label == df_with_errors.index[idx]

\* lines 203-213: one turn of the loop over df.columns
InjectColumn ==
    /\ pc = "inject"
    /\ col <= Len(df.columns)
    /\ LET column == df.columns[col]
       IN  IF column \in SkippedColumns
           THEN /\ empty' = {}
                /\ UNCHANGED df_with_errors
                /\ pc' = IF col = Len(df.columns) THEN "astype" ELSE "inject"
           ELSE \E empty_indices \in
                     Sample(num_rows, NumEmpty(num_rows, max_empty_percentage)) :
                   LET r == LocSetNone(df_with_errors, empty_indices, column)
                   IN  /\ empty' = empty_indices
                       /\ df_with_errors' = r.table
                       /\ pc' = IF ~r.ok THEN "raised"
                                ELSE IF col = Len(df.columns) THEN "astype"
                                ELSE "inject"
    /\ col' = col + 1
    /\ UNCHANGED <<station_variants, first, idx, uses, ret>>
    /\ ConfigUnchanged

\* lines 216-220: both id columns become str
AsTypeIdColumns ==
    /\ pc = "astype"
    /\ df_with_errors' =
          AsTypeStr(AsTypeStr(df_with_errors, IdColumns[1]), IdColumns[2])
    /\ pc' = FirstStage
    /\ UNCHANGED <<station_variants, first, col, idx, empty, uses, ret>>
    /\ ConfigUnchanged

\* line 225
RideIdStage ==
    /\ pc = "ride_id"
    /\ LET value == At(df_with_errors, label, "ride_id")
       IN  \E draw \in RideIdDraws(Chars(value), Gates(error_prob)) :
              IF RideIdRaises(value, draw)
              THEN pc' = "raised" /\ UNCHANGED df_with_errors
              ELSE /\ df_with_errors' = AtSet(df_with_errors, label, "ride_id",
                                              ModifyRideId(value, draw))
                   /\ pc' = "rideable_type"
    /\ UNCHANGED <<station_variants, first, col, idx, empty, uses, ret>>
    /\ ConfigUnchanged

\* lines 228-229
RideableTypeStage ==
    /\ pc = "rideable_type"
    /\ LET value == At(df_with_errors, label, "rideable_type")
       IN  IF notna(value)
           THEN \E draw \in VariantDraws(Gates(error_prob)) :
                   IF RideableTypeRaises(value, draw)
                   THEN pc' = "raised" /\ UNCHANGED df_with_errors
                   ELSE /\ df_with_errors' =
                             AtSet(df_with_errors, label, "rideable_type",
                                   ModifyRideableType(value, draw))
                        /\ pc' = "datetime"
           ELSE pc' = "datetime" /\ UNCHANGED df_with_errors
    /\ UNCHANGED <<station_variants, first, col, idx, empty, uses, ret>>
    /\ ConfigUnchanged

\* lines 232-238
DatetimeStage ==
    /\ pc = "datetime"
    /\ LET start_dt == At(df_with_errors, label, "started_at")
           end_dt == At(df_with_errors, label, "ended_at")
       IN  IF notna(start_dt) /\ notna(end_dt)
           THEN \E draw \in DatetimeDraws(Gates(error_prob),
                                        StageTimeDifferences) :
                   LET r == ModifyDatetime(start_dt, end_dt, draw)
                   IN  df_with_errors' =
                          AtSet(AtSet(df_with_errors, label, "started_at", r[1]),
                                label, "ended_at", r[2])
           ELSE UNCHANGED df_with_errors
    /\ pc' = "start_station"
    /\ UNCHANGED <<station_variants, first, col, idx, empty, uses, ret>>
    /\ ConfigUnchanged

\* the registry lookup a stage made for an endpoint of the current row
Use(stage, endpoint, r) ==
    IF isna(r.key) THEN {}
    ELSE {[row |-> idx, endpoint |-> endpoint, stage |-> stage,
           key |-> r.key, created |-> r.created]}

\* lines 241-247 (endpoint "start") and 249-255 (endpoint "end")
StationStage(endpoint, next) ==
    /\ pc = endpoint \o "_station"
    /\ LET name == At(df_with_errors, label, endpoint \o "_station_name")
           station_id == At(df_with_errors, label, endpoint \o "_station_id")
       IN  IF notna(name)
           THEN \E draw \in StationDraws(Gates(error_prob)) :
                   LET r == ModifyStationName(station_variants, name,
                                              station_id, draw)
                   IN  /\ df_with_errors' =
                             AtSet(AtSet(df_with_errors, label,
                                         endpoint \o "_station_name", r.name),
                                   label, endpoint \o "_station_id",
                                   r.station_id)
                       /\ station_variants' = r.registry
                       /\ first' = IF isna(r.key) THEN first
                                   ELSE FirstAfter(first, r.key,
                                                   r.registry[r.key])
                       /\ uses' = uses \cup Use("entity", endpoint, r)
           ELSE UNCHANGED <<df_with_errors, station_variants, first, uses>>
    /\ pc' = next
    /\ UNCHANGED <<col, idx, empty, ret>>
    /\ ConfigUnchanged

\* lines 258-266 (endpoint "start") and 268-276 (endpoint "end")
CoordinatesStage(endpoint, next) ==
    /\ pc = endpoint \o "_coordinates"
    /\ LET lat == At(df_with_errors, label, endpoint \o "_lat")
           lng == At(df_with_errors, label, endpoint \o "_lng")
           name == At(df_with_errors, label, endpoint \o "_station_name")
           station_id == At(df_with_errors, label, endpoint \o "_station_id")
       IN  IF notna(lat)
           THEN \E draw \in CoordinateDraws(station_variants, name, lat, lng,
                                            Gates(error_prob), StageJitter) :
                   LET r == ModifyCoordinates(station_variants, lat, lng,
                                              name, station_id, draw)
                   IN  /\ df_with_errors' =
                             AtSet(AtSet(df_with_errors, label,
                                         endpoint \o "_lat", r.lat),
                                   label, endpoint \o "_lng", r.lng)
                       /\ station_variants' = r.registry
                       /\ first' = IF isna(r.key) THEN first
                                   ELSE FirstAfter(first, r.key,
                                                   r.registry[r.key])
                       /\ uses' = uses \cup
                            {[u EXCEPT !.stage = "coordinates"] @@
                               [before |-> <<lat, lng>>,
                                written |-> <<r.lat, r.lng>>] :
                             u \in Use("coordinates", endpoint, r)}
           ELSE UNCHANGED <<df_with_errors, station_variants, first, uses>>
    /\ pc' = next
    /\ UNCHANGED <<col, idx, empty, ret>>
    /\ ConfigUnchanged

\* lines 279-280, and the turn of the loop over df_with_errors.index
MemberCasualStage ==
    /\ pc = "member_casual"
    /\ LET value == At(df_with_errors, label, "member_casual")
           nextrow == IF idx = Len(df_with_errors.index)
                      THEN pc' = "done" /\ UNCHANGED idx
                      ELSE pc' = "ride_id" /\ idx' = idx + 1
       IN  IF notna(value)
           THEN \E draw \in VariantDraws(Gates(error_prob)) :
                   IF MemberTypeRaises(value, draw)
                   THEN /\ pc' = "raised"
                        /\ UNCHANGED <<df_with_errors, idx>>
                   ELSE /\ df_with_errors' =
                             AtSet(df_with_errors, label, "member_casual",
                                   ModifyMemberType(value, draw))
                        /\ nextrow
           ELSE nextrow /\ UNCHANGED df_with_errors
    /\ UNCHANGED <<station_variants, first, col, empty, uses, ret>>
    /\ ConfigUnchanged

Next ==
    \/ InjectColumn
    \/ AsTypeIdColumns
    \/ RideIdStage
    \/ RideableTypeStage
    \/ DatetimeStage
    \/ StationStage("start", "end_station")
    \/ StationStage("end", "start_coordinates")
    \/ CoordinatesStage("start", "end_coordinates")
    \/ CoordinatesStage("end", "member_casual")
    \/ MemberCasualStage

Spec == Init /\ [][Next]_vars

-----------------------------------------------------------------------------
(* A generator on which the caller runs introduce_errors or calls           *)
(* _generate_invalid_datetime                                               *)

InitInvalidDatetime ==
    /\ PipelineIdle
    /\ station_variants = EmptyRegistry
    /\ first = EmptyRegistry
    /\ pc = "invalid_datetime_call"
    /\ call = NoCall
    /\ ret = NA

GenerateInvalidDatetimeCall ==
    /\ pc = "invalid_datetime_call"
    /\ \E draw \in InvalidDatetimeDraws :
          /\ ret' = GenerateInvalidDatetime(draw)
          /\ call' = [op |-> "generate_invalid_datetime", draw |-> draw]
    /\ pc' = "returned"
    /\ UNCHANGED <<station_variants, first>>
    /\ PipelineUnchanged

InitGenerator == Init \/ InitInvalidDatetime

NextGenerator == Next \/ GenerateInvalidDatetimeCall

SpecGenerator == InitGenerator /\ [][NextGenerator]_vars

-----------------------------------------------------------------------------
(* Two generators, constructed with the same arguments, on which the caller *)
(* runs introduce_errors several times                                      *)

MaxCalls == 3

StationB == Str(<<"b">>)

\* the rows of the tables of these calls: one start station, named
CallRows ==
    {[BlankRow EXCEPT !["start_station_name"] = name,
                      !["start_station_id"] = Str(<<"T", "7">>),
                      !["start_lat"] = Num(10),
                      !["start_lng"] = Num(20)] :
     name \in {StationA, StationB}}

CallTables ==
    {[columns |-> Columns, index |-> <<0>>, rows |-> <<r>>] : r \in CallRows}

\* the call the caller makes: which in the sequence it is, and the names the
\* generator had registered when it was made
IntroduceErrorsArgs(n, sv) ==
    [op |-> "introduce_errors", n |-> n, known |-> DOMAIN sv]

InitCalls ==
    /\ error_prob \in ErrorProbabilities
    /\ max_empty_percentage \in MaxEmptyPercentages
    /\ station_variants = NewGenerator.station_variants
    /\ first = NewGenerator.first
    /\ other = NewGenerator
    /\ df \in CallTables
    /\ df_with_errors = Copy(df).table
    /\ pc = "inject"
    /\ col = 1
    /\ idx = 1
    /\ empty = {}
    /\ uses = {}
    /\ call = IntroduceErrorsArgs(1, station_variants)
    /\ ret = NA
    /\ corrected_rows = <<>>

\* the caller, once a call has returned or raised, calls introduce_errors
\* with another table, on the same generator or on the second one (which
\* then becomes self)
IntroduceErrorsCall(on_other) ==
    /\ pc \in {"done", "raised"}
    /\ call.n < MaxCalls
    /\ IF on_other
       THEN /\ station_variants' = other.station_variants
            /\ first' = other.first
            /\ other' = [station_variants |-> station_variants,
                         first |-> first]
       ELSE UNCHANGED <<station_variants, first, other>>
    /\ df' \in CallTables
    /\ df_with_errors' = Copy(df').table
    /\ pc' = "inject"
    /\ col' = 1
    /\ idx' = 1
    /\ empty' = {}
    /\ uses' = {}
    /\ call' = IntroduceErrorsArgs(call.n + 1, station_variants')
    /\ UNCHANGED <<error_prob, max_empty_percentage, ret, corrected_rows>>

NextCalls ==
    \/ Next
    \/ IntroduceErrorsCall(FALSE)
    \/ IntroduceErrorsCall(TRUE)

SpecCalls == InitCalls /\ [][NextCalls]_vars

-----------------------------------------------------------------------------
(* The repair loop: process_single_row and clean_csv_with_phi3              *)
(* (src/phi3_no_metadata.py; phi3_few_shot.py and phi3_metadata.py have the *)
(* same process_single_row and the same loop)                               *)
(*                                                                          *)
(* A response text is a sequence of pieces of text:                         *)
(*   "{" and "}"   the braces                                               *)
(*   "a"           a member "ride_id": "Z" of a JSON object, with the comma *)
(*                 it needs                                                 *)
(*   "z"           a member "zone": "Z", a key no row has                   *)
(*   "x"           text that is no JSON and holds no brace                  *)
(* A row, and a parsed JSON object, is a function from keys to values.      *)

MaxResponseLen == 3

MaxCsvRows == 2

Pieces == {"{", "}", "a", "z", "x"}

\* the key and the value of a member piece
Members == [a |-> <<"ride_id", Str(<<"Z">>)>>, z |-> <<"zone", Str(<<"Z">>)>>]

\* str.find(c): the offset from 0 of the first c in s, -1 when there is none
Find(s, c) ==
    IF c \in Range(s)
    THEN (CHOOSE i \in DOMAIN s :
             s[i] = c /\ \A j \in 1..(i - 1) : s[j] # c) - 1
    ELSE -1

\* str.rfind(c): the offset from 0 of the last c in s, -1 when there is none
RFind(s, c) ==
    IF c \in Range(s)
    THEN (CHOOSE i \in DOMAIN s :
             s[i] = c /\ \A j \in (i + 1)..Len(s) : s[j] # c) - 1
    ELSE -1

\* s[from:to], offsets from 0
Slice(s, from, to) == SubSeq(s, from + 1, to)

\* json.loads(s): [ok, v]; ok = FALSE stands for json.JSONDecodeError.  The
\* text of an object is a "{", members, and a "}"
JsonLoads(s) ==
    IF /\ Len(s) >= 2
       /\ s[1] = "{"
       /\ s[Len(s)] = "}"
       /\ \A i \in 2..(Len(s) - 1) : s[i] \in DOMAIN Members
    THEN LET keys == {Members[s[i]][1] : i \in 2..(Len(s) - 1)}
         IN  [ok |-> TRUE,
              v |-> [k \in keys |->
                       LET i == CHOOSE i \in 2..(Len(s) - 1) :
                                   Members[s[i]][1] = k
                       IN  Members[s[i]][2]]]
    ELSE [ok |-> FALSE, v |-> NA]

\* what pipe(messages, **generation_args) does: it raises, or it returns a
\* generated text
Outcomes ==
    {[raises |-> TRUE, generated_text |-> <<>>]} \cup
    {[raises |-> FALSE, generated_text |-> t] :
       t \in UNION {[1..n -> Pieces] : n \in 0..MaxResponseLen}}

\* lines 63-96: what process_single_row returns for row under the outcome
\* of the model call; NA is None
ProcessSingleRow(row, outcome) ==
    IF outcome.raises
    THEN row                                               \* lines 94-96
    ELSE LET response_text == outcome.generated_text
             json_start == Find(response_text, "{")
             json_end == RFind(response_text, "}") + 1
         IN  IF json_start >= 0 /\ json_end > json_start
             THEN LET loaded ==
                         JsonLoads(Slice(response_text, json_start, json_end))
                      corrected_row == loaded.v
                  IN  IF ~loaded.ok
                      THEN row                              \* lines 90-92
                      ELSE IF DOMAIN corrected_row \subseteq DOMAIN row
                      THEN corrected_row                    \* line 88
                      ELSE row       \* KeyError of row[k], line 83; 94-96
             ELSE NA                  \* no return statement is reached

\* the rows of the csv file
CsvRows == {[ride_id |-> Str(<<c>>)] : c \in {"A", "B"}}

CsvTables ==
    UNION {{[columns |-> <<"ride_id">>, index |-> [p \in 1..n |-> p - 1],
             rows |-> r] : r \in [1..n -> CsvRows]} :
           n \in 0..MaxCsvRows}

\* the max_rows argument: None, or a number of rows
MaxRowsArgs == {NA} \cup {[int |-> n] : n \in 0..MaxCsvRows}

\* lines 121-122: df.head(max_rows) if max_rows is truthy
HeadRows(t, max_rows) ==
    IF isna(max_rows) \/ max_rows.int = 0
    THEN t
    ELSE LET n == IF max_rows.int < Len(t.rows) THEN max_rows.int
                  ELSE Len(t.rows)
         IN  [t EXCEPT !.index = SubSeq(t.index, 1, n),
                       !.rows = SubSeq(t.rows, 1, n)]

\* df.to_dict('records')
rows == df.rows

\* clean_csv_with_phi3 at line 128: the model is loaded, the file is read
\* and cut to max_rows, and no row is processed
InitRepair ==
    /\ error_prob = 0
    /\ max_empty_percentage = 0
    /\ station_variants = EmptyRegistry
    /\ first = EmptyRegistry
    /\ other = NewGenerator
    /\ \E t \in CsvTables, max_rows \in MaxRowsArgs :
          /\ df = HeadRows(t, max_rows)
          /\ call = [op |-> "clean_csv_with_phi3", max_rows |-> max_rows,
                     csv_rows |-> Len(t.rows)]
    /\ df_with_errors = NoTable
    /\ pc = "process_rows"
    /\ col = 0
    /\ idx = 0
    /\ empty = {}
    /\ uses = {}
    /\ ret = NA
    /\ corrected_rows = <<>>

RepairUnchanged ==
    UNCHANGED <<error_prob, max_empty_percentage, station_variants, first,
                other, df, df_with_errors, col, empty, uses>>

\* lines 128-141: one turn of the loop, idx the number of rows processed
\* (the progress files written every 50 rows are not part of the state)
ProcessRow ==
    /\ pc = "process_rows"
    /\ idx < Len(rows)
    /\ \E outcome \in Outcomes :
          LET result == ProcessSingleRow(rows[idx + 1], outcome)
          IN  /\ corrected_rows' = Append(corrected_rows, result)
              /\ ret' = result
              /\ call' = [op |-> "process_single_row", row |-> rows[idx + 1],
                          row_number |-> idx + 1, outcome |-> outcome]
    /\ idx' = idx + 1
    /\ UNCHANGED pc
    /\ RepairUnchanged

\* lines 143-151: the loop is over and the list is returned
ReturnCorrectedRows ==
    /\ pc = "process_rows"
    /\ idx = Len(rows)
    /\ ret' = corrected_rows
    /\ pc' = "returned"
    /\ UNCHANGED <<idx, call, corrected_rows>>
    /\ RepairUnchanged

NextRepair == ProcessRow \/ ReturnCorrectedRows

SpecRepair == InitRepair /\ [][NextRepair]_vars

-----------------------------------------------------------------------------
(* Claims about introduce_errors *)

\* the station name the input table holds for the endpoint a lookup was
\* made for: the canonical name of the entity
InputName(u) == df.rows[u.row][u.endpoint \o "_station_name"]

\* C1: all lookups made for rows and endpoints that hold the same canonical
\* station name in the input draw from one and the same VariantSet, which is
\* generated once for that name.
EntityConsistency ==
    /\ \A u1, u2 \in uses :
          InputName(u1) = InputName(u2) => u1.key = u2.key
    /\ \A u1, u2 \in uses :
          (InputName(u1) = InputName(u2) /\ u1.created /\ u2.created)
             => u1 = u2

\* the station names of the input table
InputNames ==
    {df.rows[p][c] : p \in DOMAIN df.rows,
                     c \in {"start_station_name", "end_station_name"}}

\* C2: for every row and endpoint the coordinate stage looks the VariantSet
\* up under the key the entity stage used for that row and endpoint, also
\* when the entity stage replaced the name; so every key of the registry is
\* a station name of the input table.
CoordinatesUseEntityKey ==
    /\ \A u \in uses :
          u.stage = "coordinates" =>
             \E e \in uses : /\ e.stage = "entity"
                             /\ e.row = u.row
                             /\ e.endpoint = u.endpoint
                             /\ e.key = u.key
    /\ DOMAIN station_variants \subseteq InputNames

\* whether x lies within JitterMax degrees of y
Near(x, y) == x.num - y.num <= JitterMax /\ y.num - x.num <= JitterMax

\* C3: whenever the coordinate gate fires for a row whose station name, lat
\* and lng are present, the pair written is a pair of present numbers within
\* 1 degree of the coordinates the input gives that entity, taken from a set
\* of 3 or 4 points; it is never the missing marker.
CoordinatesWrittenNearEntity ==
    \A u \in uses :
       u.stage = "coordinates" =>
          /\ notna(u.written[1])
          /\ notna(u.written[2])
          /\ Len(station_variants[u.key].coordinates)
                \in MinVariants..MaxVariants
          /\ \E p \in DOMAIN df.rows, e \in {"start", "end"} :
                /\ df.rows[p][e \o "_station_name"] = InputName(u)
                /\ notna(df.rows[p][e \o "_lat"])
                /\ notna(df.rows[p][e \o "_lng"])
                /\ Near(u.written[1], df.rows[p][e \o "_lat"])
                /\ Near(u.written[2], df.rows[p][e \o "_lng"])

\* C5: every cell that is missing in the input is missing in the table
\* returned, the three identifier-like columns included.
NullPropagation ==
    pc = "done" =>
       \A p \in DOMAIN df.rows, c \in Range(df.columns) :
          isna(df.rows[p][c]) => isna(df_with_errors.rows[p][c])

\* C9: the table returned has the rows, the index and the columns of the
\* input, in the same order.
ShapeInvariance ==
    pc = "done" =>
       /\ df_with_errors.columns = df.columns
       /\ df_with_errors.index = df.index
       /\ Len(df_with_errors.rows) = Len(df.rows)
       /\ \A p \in DOMAIN df_with_errors.rows :
             DOMAIN df_with_errors.rows[p] = Range(df.columns)

\* a table of MaxRows rows was returned with a present cell nulled and
\* another cell changed to another present value
ShapeInvarianceWitness ==
    /\ pc = "done"
    /\ Len(df.rows) = MaxRows
    /\ \E p \in DOMAIN df.rows, c1, c2 \in Range(df.columns) :
          /\ notna(df.rows[p][c1]) /\ isna(df_with_errors.rows[p][c1])
          /\ notna(df_with_errors.rows[p][c2])
          /\ df_with_errors.rows[p][c2] # df.rows[p][c2]

\* C10: in each column but the three identifier-like ones the injector sets
\* exactly floor(rowCount * max_empty_percentage) distinct positions to the
\* missing marker (30 of 1000 rows at 0.03) and leaves the other cells of
\* the column alone; it sets no cell of the three identifier-like columns.
\* Stated of the column the injector handled last, the positions it sampled
\* for it being in empty.
InjectionCount ==
    /\ NumEmpty(1000, 3) = 30
    /\ (pc \in {"inject", "astype", "raised"} /\ col > 1) =>
          LET c == df.columns[col - 1]
          IN  IF c \in SkippedColumns
              THEN \A p \in DOMAIN df.rows :
                      df_with_errors.rows[p][c] = df.rows[p][c]
              ELSE /\ Cardinality(empty)
                         = (Len(df.rows) * max_empty_percentage) \div 100
                   /\ empty \subseteq 0..(Len(df.rows) - 1)
                   /\ \A p \in DOMAIN df.rows :
                         df_with_errors.rows[p][c] =
                            IF p - 1 \in empty THEN NA ELSE df.rows[p][c]

\* whether the input table has the index 0..n-1
HasRangeIndex == df.index = [p \in DOMAIN df.index |-> p - 1]

\* C11: for every input table with all the columns, whose cells are missing,
\* strs or numbers (numeric ride ids, categories and rider classes
\* included), and every outcome of the gates, introduce_errors returns
\* without an exception reaching the caller.  Stated of the tables with the
\* index 0..n-1, on which the injector itself does not raise.
NoStageRaises == HasRangeIndex => pc # "raised"

\* the cell of the row the loop is at, and whether the step changes it
Cell(column) == df_with_errors.rows[idx][column]

Changed(column) ==
    df_with_errors'.rows[idx][column] # df_with_errors.rows[idx][column]

\* a category that contains a canonical term (line 79)
ContainsCanonicalTerm(v) ==
    IsStr(v) /\ \E j \in DOMAIN RideableCorrect :
                   Contains(v.str, RideableCorrect[j])

\* a rider class equal to a canonical value, ignoring case (line 196)
MatchesCanonicalClass(v) ==
    IsStr(v) /\ \E j \in DOMAIN MemberCorrect :
                   Lower(MemberCorrect[j]) = Lower(v.str)

\* C12, as claimed: with error probability 1.0 every stage changes its
\* target field in every eligible row: ride id, category containing a
\* canonical term, canonical timestamps, station name, station id,
\* coordinates with a present station name, rider class matching a canonical
\* value.
EveryStageChanges ==
    [][(error_prob = 100 /\ pc' # "raised") =>
        /\ (pc = "ride_id" /\ notna(Cell("ride_id"))) => Changed("ride_id")
        /\ (pc = "rideable_type"
               /\ ContainsCanonicalTerm(Cell("rideable_type")))
           => Changed("rideable_type")
        /\ (pc = "datetime" /\ IsCanonical(Cell("started_at"))
               /\ IsCanonical(Cell("ended_at")))
           => (Changed("started_at") /\ Changed("ended_at"))
        /\ \A e \in {"start", "end"} :
              (pc = e \o "_station" /\ notna(Cell(e \o "_station_name"))
                 /\ notna(Cell(e \o "_station_id")))
              => (Changed(e \o "_station_name")
                    /\ Changed(e \o "_station_id"))
        /\ \A e \in {"start", "end"} :
              (pc = e \o "_coordinates" /\ notna(Cell(e \o "_station_name"))
                 /\ notna(Cell(e \o "_lat")) /\ notna(Cell(e \o "_lng")))
              => (Changed(e \o "_lat") \/ Changed(e \o "_lng"))
        /\ (pc = "member_casual"
               /\ MatchesCanonicalClass(Cell("member_casual")))
           => Changed("member_casual")
    ]_vars

\* C12, amended: with error probability 1.0 the stage changes a ride id of
\* more than two characters, a category containing a canonical term, both
\* timestamps of a canonical pair, and a rider class that matches a
\* canonical value and is not itself one of the listed variants.
EligibleStagesChange ==
    [][(error_prob = 100 /\ pc' # "raised") =>
        /\ (pc = "ride_id" /\ IsStr(Cell("ride_id"))
               /\ Len(Cell("ride_id").str) > 2)
           => Changed("ride_id")
        /\ (pc = "rideable_type"
               /\ ContainsCanonicalTerm(Cell("rideable_type")))
           => Changed("rideable_type")
        /\ (pc = "datetime" /\ IsCanonical(Cell("started_at"))
               /\ IsCanonical(Cell("ended_at")))
           => (Changed("started_at") /\ Changed("ended_at"))
        /\ (pc = "member_casual"
               /\ MatchesCanonicalClass(Cell("member_casual"))
               /\ Cell("member_casual")
                     \notin Range(MemberVariants) \cup Range(CasualVariants))
           => Changed("member_casual")
    ]_vars

\* at error probability 1.0 a table was returned in which a pair of
\* canonical timestamps came out in other layouts
EligibleStagesChangeWitness ==
    /\ error_prob = 100
    /\ pc = "done"
    /\ \E p \in DOMAIN df.rows :
          /\ Strptime(df.rows[p]["started_at"]).ok
          /\ Strptime(df.rows[p]["ended_at"]).ok
          /\ notna(df_with_errors.rows[p]["started_at"])
          /\ df_with_errors.rows[p]["started_at"] # df.rows[p]["started_at"]
          /\ df_with_errors.rows[p]["ended_at"] # df.rows[p]["ended_at"]

\* C13: with error probability 0.0 the table returned differs from the
\* input only in the cells the injector nulled, and with
\* max_empty_percentage 0 as well it equals the input cell for cell, the
\* station id columns included.
NoGateNoChange ==
    (pc = "done" /\ error_prob = 0) =>
        /\ \A p \in DOMAIN df.rows, c \in Range(df.columns) :
              \/ df_with_errors.rows[p][c] = df.rows[p][c]
              \/ c \notin SkippedColumns /\ isna(df_with_errors.rows[p][c])
        /\ max_empty_percentage = 0 => df_with_errors = df

\* C15: a missing station name is never registered: _get_station_variants
\* called with a missing name returns the single-value set built from its
\* inputs as they are and leaves the registry unchanged; in introduce_errors
\* an endpoint whose station name is missing adds no registry entry and
\* keeps its id, lat and lng (lat and lng unless the injector nulled them).
NullNameNeverRegistered ==
    /\ NA \notin DOMAIN station_variants
    /\ \A station_id \in FreshIds, lat \in FreshLats, lng \in FreshLngs :
          LET r == GetStationVariants(station_variants, NA, station_id,
                                      lat, lng, NoDraw)
          IN  /\ r.registry = station_variants
              /\ r.variants = [names |-> <<NA>>, ids |-> <<station_id>>,
                               coordinates |-> << <<lat, lng>> >>]
    /\ pc = "done" =>
          \A p \in DOMAIN df.rows, e \in {"start", "end"} :
             isna(df.rows[p][e \o "_station_name"]) =>
                /\ df_with_errors.rows[p][e \o "_station_id"]
                      = df.rows[p][e \o "_station_id"]
                /\ \A c \in {e \o "_lat", e \o "_lng"} :
                      \/ df_with_errors.rows[p][c] = df.rows[p][c]
                      \/ isna(df_with_errors.rows[p][c])

\* the positions of the row loop
StagePositions ==
    {"ride_id", "rideable_type", "datetime", "start_station", "end_station",
     "start_coordinates", "end_coordinates", "member_casual"}

\* the positions of introduce_errors
PipelinePositions == StagePositions \cup {"inject", "astype", "done", "raised"}

\* C17: the injection has gone through all the columns before the first
\* per-row stage runs, and a cell the injector set to the missing marker is
\* the missing marker in the table returned: no later step gives a missing
\* cell of an injected column a value.
InjectionBeforeStages ==
    [][/\ pc \in StagePositions => col = Len(df.columns) + 1
       /\ pc # "inject" =>
             \A p \in DOMAIN df.rows, c \in Range(df.columns) \ SkippedColumns :
                isna(df_with_errors.rows[p][c])
                   => isna(df_with_errors'.rows[p][c])
    ]_vars

\* every gate fired on a row whose category and station name the injector
\* had nulled, and the table was returned with them missing
InjectionBeforeStagesWitness ==
    /\ pc = "done"
    /\ error_prob = 100
    /\ \E p \in DOMAIN df.rows :
          \/ /\ notna(df.rows[p]["rideable_type"])
             /\ isna(df_with_errors.rows[p]["rideable_type"])
          \/ /\ notna(df.rows[p]["start_station_name"])
             /\ isna(df_with_errors.rows[p]["start_station_name"])
             /\ isna(df_with_errors.rows[p]["start_lat"])

\* C20: introduce_errors does not modify its argument: no step changes a
\* cell, the index or the columns of the caller's table; the corruption
\* goes to the copy that is returned.
ArgumentNotModified ==
    [][(pc \in PipelinePositions) => (df' = df)]_vars

\* a table was returned that differs from the caller's, which still has
\* the station name the copy lost
ArgumentNotModifiedWitness ==
    /\ pc = "done"
    /\ df_with_errors # df
    /\ \E p \in DOMAIN df.rows :
          /\ df.rows[p]["start_station_name"] = StationA
          /\ df_with_errors.rows[p]["start_station_name"] # StationA

-----------------------------------------------------------------------------
(* Claims about the registry *)

\* C4: once a name is registered, every later _get_station_variants call for
\* it returns the VariantSet its first call returned, whatever id, lat and
\* lng it is given and whatever other calls came between; no entry of the
\* registry is removed or rewritten.
RegistryImmutable ==
    /\ \A n \in DOMAIN first :
          n \in DOMAIN station_variants /\ station_variants[n] = first[n]
    /\ (call.op = "resolve" /\ notna(call.name)) => ret = first[call.name]

\* a second name is registered, and a call for a registered name was given
\* an id and coordinates that would have built another VariantSet
RegistryImmutableWitness ==
    /\ call.op = "resolve"
    /\ call.known
    /\ Cardinality(DOMAIN station_variants) = 2
    /\ ret.ids # IdVariants(call.station_id)
    /\ notna(call.lat) /\ notna(call.lng)
    /\ ret.coordinates = << <<NA, NA>> >>

\* a call on an unregistered name with lat and lng present has returned
CreatedFromCoordinates ==
    /\ pc = "returned" /\ call.op = "resolve"
    /\ notna(call.name) /\ notna(call.lat) /\ notna(call.lng)

\* C14, as claimed: the coordinate variants created from present lat/lng
\* are the original point (lat, lng) together with 2 to 3 jittered points,
\* every point within 1 degree of the original.
CoordinatesContainOriginal ==
    CreatedFromCoordinates =>
        /\ <<call.lat, call.lng>> \in Range(ret.coordinates)
        /\ Len(ret.coordinates) \in MinVariants..MaxVariants
        /\ \A k \in DOMAIN ret.coordinates :
              /\ Near(ret.coordinates[k][1], call.lat)
              /\ Near(ret.coordinates[k][2], call.lng)

\* C14, amended: the coordinate variants created from present lat/lng are
\* 3 or 4 jittered points, every point within 1 degree of the original;
\* the original point is not added to them.
CoordinatesAreJittered ==
    CreatedFromCoordinates =>
        /\ Len(ret.coordinates) \in MinVariants..MaxVariants
        /\ \A k \in DOMAIN ret.coordinates :
              /\ Near(ret.coordinates[k][1], call.lat)
              /\ Near(ret.coordinates[k][2], call.lng)

\* four points were created, none of them the original
CoordinatesAreJitteredWitness ==
    /\ CreatedFromCoordinates
    /\ Len(ret.coordinates) = MaxVariants
    /\ <<call.lat, call.lng>> \notin Range(ret.coordinates)

\* a station id that is a number: an int, a float, or a str that reads as a
\* decimal number
IsNumericId(v) == notna(v) /\ FloatOf(v).ok /\ ~FloatOf(v).nan

\* C8: resolving an unregistered name with a numeric id (a number or a
\* numeric string, integer- or decimal-valued) creates exactly three id
\* variants: the string form, the value + 0.1 as a float string and the
\* value + 1 as an integer string; an absent or non-numeric id gives the
\* single stringified id.
IdVariantsAsSpecified ==
    (pc = "returned" /\ call.op = "resolve" /\ notna(call.name)) =>
        LET id == call.station_id
        IN  IF IsNumericId(id)
            THEN ret.ids = << StrOf(id),
                              Str(FloatStr(FloatOf(id).v + 1)),
                              Str(IntStr((FloatOf(id).v \div 10) + 1)) >>
            ELSE ret.ids \in {<<id>>, <<StrOf(id)>>}

\* the registry g.station_variants holds the names looked up through the
\* generator g and no other name, each with the VariantSet its first lookup
\* returned
OwnsRegistry(g) ==
    /\ DOMAIN g.station_variants = DOMAIN g.first
    /\ \A n \in DOMAIN g.first : g.station_variants[n] = g.first[n]

\* the VariantSets of the names registered when the current call was made
KnownVariants == [n \in call.known |-> first[n]]

\* a stage of the current call that reads, at an endpoint, a name registered
\* before the call was made leaves the registry as it is and writes values
\* of the VariantSet registered then (or leaves the cells as they are)
LaterRowsUseRegistered ==
    \A e \in {"start", "end"} :
       LET name == At(df_with_errors, label, e \o "_station_name")
           station_id == At(df_with_errors, label, e \o "_station_id")
           lat == At(df_with_errors, label, e \o "_lat")
           lng == At(df_with_errors, label, e \o "_lng")
       IN  /\ (/\ pc = e \o "_station"
               /\ notna(name) /\ notna(station_id)
               /\ name \in call.known)
              => /\ station_variants' = station_variants
                 /\ \E u \in uses' \ uses : u.key = name /\ ~u.created
                 /\ At(df_with_errors', label, e \o "_station_name")
                       \in Range(KnownVariants[name].names) \cup {name}
                 /\ At(df_with_errors', label, e \o "_station_id")
                       \in Range(KnownVariants[name].ids)
                            \cup {StrOf(station_id)}
           /\ (/\ pc = e \o "_coordinates"
               /\ notna(name) /\ notna(lat) /\ notna(lng)
               /\ name \in call.known)
              => /\ station_variants' = station_variants
                 /\ << At(df_with_errors', label, e \o "_lat"),
                       At(df_with_errors', label, e \o "_lng") >>
                       \in Range(KnownVariants[name].coordinates)
                            \cup {<<lat, lng>>}

-----------------------------------------------------------------------------
(* Claims about _modify_datetime *)

\* C6: when the end-before-start gate fires on a pair of canonical
\* timestamps, whether or not the reformat gate fired too, the end returned
\* is the canonical rendering of start - delta, 1 hour <= delta <= 4 weeks.
EndPrecedesStart ==
    (pc = "returned" /\ call.op = "modify_datetime" /\ call.draw.order_gate
       /\ IsCanonical(call.start_dt) /\ IsCanonical(call.end_dt)) =>
        /\ IsCanonical(ret[2])
        /\ call.start_dt.ts - ret[2].ts >= 1
        /\ call.start_dt.ts - ret[2].ts
              <= HoursPerDay * DaysPerWeek * MaxWeeks

-----------------------------------------------------------------------------
(* Claims about the enumerated-variant mutators and _modify_ride_id *)

\* C16: when the category gate fires on a value that contains a canonical
\* term the output is one of that term's four listed variants (for
\* 'classic_bike': class_bike, classic_bik, clasic_bike, 'classic bike');
\* when the rider-class gate fires on a value equal, ignoring case, to
\* 'member' or 'casual' the output is one of that value's four listed
\* variants (for 'member': Member, MEMBER, membr, Members); an unmatched or
\* missing value is returned unchanged by both.
EnumeratedVariants ==
    /\ Range(ClassicBikeVariants) =
          {Str(<<"c", "l", "a", "s", "s", "_", "b", "i", "k", "e">>),
           Str(<<"c", "l", "a", "s", "s", "i", "c", "_", "b", "i", "k">>),
           Str(<<"c", "l", "a", "s", "i", "c", "_", "b", "i", "k", "e">>),
           Str(<<"c", "l", "a", "s", "s", "i", "c", " ", "b", "i", "k", "e">>)}
    /\ Range(MemberVariants) =
          {Str(<<"M", "e", "m", "b", "e", "r">>),
           Str(<<"M", "E", "M", "B", "E", "R">>),
           Str(<<"m", "e", "m", "b", "r">>),
           Str(<<"M", "e", "m", "b", "e", "r", "s">>)}
    /\ \A k \in 1..2 : Cardinality(Range(RideableVariants[k])) = 4
                        /\ Cardinality(Range(MemberTypeVariants[k])) = 4
    /\ (pc = "returned" /\ call.op = "modify_rideable_type") =>
          IF ContainsCanonicalTerm(call.value)
          THEN call.draw.gate =>
                 \E j \in DOMAIN RideableCorrect :
                    /\ Contains(call.value.str, RideableCorrect[j])
                    /\ ret \in Range(RideableVariants[j])
          ELSE ret = call.value
    /\ (pc = "returned" /\ call.op = "modify_member_type") =>
          IF MatchesCanonicalClass(call.value)
          THEN call.draw.gate =>
                 \E j \in DOMAIN MemberCorrect :
                    /\ Lower(call.value.str) = MemberCorrect[j]
                    /\ ret \in Range(MemberTypeVariants[j])
          ELSE ret = call.value

\* the category gate fired on a str that holds 'classic_bike' inside a
\* longer text and the fourth listed variant came back
EnumeratedVariantsWitness ==
    /\ pc = "returned" /\ call.op = "modify_rideable_type"
    /\ call.draw.gate
    /\ ContainsCanonicalTerm(call.value)
    /\ call.value # Str(RideableCorrect[1])
    /\ ret = ClassicBikeVariants[4]

\* whether out is the str of value with spaces single spaces put in, one
\* after every second character, its other characters those of value up to
\* lower-casing (exactly those of value when exact holds)
SpacedEvery2(out, value, spaces, exact) ==
    /\ Len(out) = Len(value) + spaces
    /\ \A j \in DOMAIN out :
          IF j % 3 = 0 /\ j \div 3 <= spaces
          THEN out[j] = " "
          ELSE LET c == value[j - (IF j \div 3 <= spaces THEN j \div 3
                                   ELSE spaces)]
               IN  IF exact THEN out[j] = c
                   ELSE out[j] \in {c, LowerChar(c)}

\* a str without its spaces
RECURSIVE WithoutSpaces(_)
WithoutSpaces(s) ==
    IF s = <<>> THEN <<>>
    ELSE (IF Head(s) = " " THEN <<>> ELSE <<Head(s)>>)
         \o WithoutSpaces(Tail(s))

\* a call of _modify_ride_id has returned
RideIdReturned == pc = "returned" /\ call.op = "modify_ride_id"

\* C18, as claimed: the output of _modify_ride_id without its spaces equals
\* the input ignoring case; when gate (a) fires a single space follows
\* every second character of the id; when gate (b) fires it lower-cases
\* characters of the already spaced str; a missing id is returned unchanged.
RideIdSpaceAfterEverySecond ==
    RideIdReturned =>
        IF isna(call.value) THEN ret = call.value
        ELSE /\ Lower(WithoutSpaces(ret.str))
                  = Lower(WithoutSpaces(call.value.str))
             /\ SpacedEvery2(ret.str, call.value.str,
                             IF call.draw.space_gate
                             THEN Len(call.value.str) \div 2 ELSE 0,
                             ~call.draw.case_gate)

\* C18, amended: as claimed, but the single spaces stand between the
\* successive pairs of characters: no space follows the last character of
\* an id of even length.
RideIdSpaceBetweenPairs ==
    RideIdReturned =>
        IF isna(call.value) THEN ret = call.value
        ELSE /\ Lower(WithoutSpaces(ret.str))
                  = Lower(WithoutSpaces(call.value.str))
             /\ SpacedEvery2(ret.str, call.value.str,
                             IF call.draw.space_gate
                                /\ Len(call.value.str) > 0
                             THEN (Len(call.value.str) - 1) \div 2 ELSE 0,
                             ~call.draw.case_gate)

\* both gates fired on an id of four characters: one space between the
\* pairs, the first pair lower-cased
RideIdSpaceBetweenPairsWitness ==
    /\ RideIdReturned
    /\ call.draw.space_gate /\ call.draw.case_gate
    /\ call.value = Str(<<"A", "b", "C", "d">>)
    /\ ret = Str(<<"a", "b", " ", "C", "d">>)

-----------------------------------------------------------------------------
(* Claims about _generate_invalid_datetime *)

\* C19: _generate_invalid_datetime returns a timestamp in the base layout
\* that is at least 1 day and at most 365 days 23:59:59 before
\* 2024-01-01 00:00:00, or as much after 2024-02-01 23:59:59; and
\* introduce_errors never calls it.
InvalidDatetimeOutsideWindow ==
    /\ (pc = "returned" /\ call.op = "generate_invalid_datetime") =>
          /\ IsCanonical(ret)
          /\ \/ valid_start - ret.ts
                   \in 86400..(365 * 86400 + 23 * 3600 + 59 * 60 + 59)
             \/ ret.ts - (32 * 86400 - 1)
                   \in 86400..(365 * 86400 + 23 * 3600 + 59 * 60 + 59)
    /\ pc \in PipelinePositions => call = NoCall

\* the latest timestamp the generator returns
InvalidDatetimeOutsideWindowWitness ==
    /\ pc = "returned" /\ call.op = "generate_invalid_datetime"
    /\ ~call.draw.before
    /\ ret.ts - valid_end = 365 * 86400 + 23 * 3600 + 59 * 60 + 59

-----------------------------------------------------------------------------
(* Claims about the repair loop *)

\* the JSON object parsed from the response of a model call: the value of
\* json.loads on the text from its first "{" to its last "}", if the call
\* returned, the text has such a span and the span parses
ParsedFrom(outcome) ==
    IF outcome.raises THEN {}
    ELSE LET text == outcome.generated_text
             from == Find(text, "{")
             to == RFind(text, "}") + 1
         IN  IF from >= 0 /\ to > from /\ JsonLoads(Slice(text, from, to)).ok
             THEN {JsonLoads(Slice(text, from, to)).v}
             ELSE {}

\* every JSON object a response can hold
ParsedObjects == UNION {ParsedFrom(outcome) : outcome \in Outcomes}

\* C22: the list the repair loop builds holds one entry per row processed,
\* in the order of the rows, and one per input row when it is returned; the
\* entry of a row is the JSON object parsed from the response for that row
\* or the row itself, and is never None, whatever the model call did (it
\* raised, its text holds no "{...}" span, or the span does not parse).
RepairEntries ==
    /\ Len(corrected_rows) = idx
    /\ pc = "returned" =>
          Len(corrected_rows) = Len(rows) /\ ret = corrected_rows
    /\ \A j \in DOMAIN corrected_rows :
          /\ corrected_rows[j] # NA
          /\ corrected_rows[j] \in {rows[j]} \cup ParsedObjects
    /\ call.op = "process_single_row" =>
          /\ call.row = rows[call.row_number]
          /\ corrected_rows[call.row_number]
                \in {call.row} \cup ParsedFrom(call.outcome)

====
